---------------------------- MODULE Spec2Model ----------------------------
(***************************************************************************)
(* Model of PyGMO/alife/robot.py: the ALife Robot, a box torso with        *)
(* cylindrical legs, each attached to the torso by a hinge joint.          *)
(*                                                                         *)
(* Real numbers of the source (lengths, densities, joint parameters) are   *)
(* exact multiples of 1/Scale and are held as integers in that unit, so    *)
(* that the divisions of _create_leg are exact.  Floating-point rounding   *)
(* is not modelled.  Integer expressions of the source (n, self._legs,     *)
(* n/4, n % 4, legs/2) are integers with Python 2 semantics.               *)
(***************************************************************************)
EXTENDS Integers, Sequences, FiniteSets, TLC

\* ------------------------------------------------------------------ bounds
\* largest and (negated) smallest argument given to set_num_legs
MaxLegs == 10
MaxNeg == 2
\* number of accepted set_num_legs calls in one behaviour
MaxRebuilds == 1
\* number of engine events (world steps, motor commands) in one behaviour
MaxTicks == 1

\* ------------------------------------------------------------ number model
RECURSIVE GCD(_, _)
GCD(a, b) == IF b = 0 THEN a ELSE GCD(b, a % b)

LCM(a, b) == (a * b) \div GCD(a, b)

RECURSIVE LCMUpTo(_)
LCMUpTo(k) == IF k <= 1 THEN 1 ELSE LCM(k, LCMUpTo(k - 1))

\* one length unit of the source is Scale model units; Scale is a multiple
\* of 100 and of every legs_per_side that can occur
Scale == 100 * LCMUpTo(MaxLegs \div 2)

\* the real number num/den
Real(num, den) == (num * Scale) \div den

min(a, b) == IF a < b THEN a ELSE b

\* --------------------------------------------------- constructor constants
DefaultBodyPosition == <<0, Real(150, 1), 0>>
DefaultBodyDensity == Real(35, 100)
DefaultLegDensity == Real(25, 100)
DefaultLegs == 4
_body_size == <<Real(4, 1), Real(3, 1), Real(4, 1)>>
_leg_radius == Real(25, 100)
_leg_length == Real(38, 10)
\* _leg_y_offset with the last term added instead of subtracted
_leg_y_offset_protruding ==
    (_leg_length \div 2) + (_body_size[2] \div 2) + min(_leg_radius * 2, Real(1, 1))
_leg_y_offset == (_leg_length \div 2) + (_body_size[2] \div 2) - min(_leg_radius * 2, Real(1, 1))
_leg_rotation == <<1, 0, 0, 0, 0, -1, 0, 1, 0>>

\* names: "robot_body", and "robot_leg" + str(n+1) as prefix and number
BodyName == <<"robot_body">>
LegName(n) == <<"robot_leg", n + 1>>
JointName(n) == <<"robot_body", "_leg", n + 1>>
IsLegName(name) == name[1] = "robot_leg"

\* ------------------------------------------------------ engine primitives
\* rotation of a body that was never rotated
IdentityRotation == <<1, 0, 0, 0, 1, 0, 0, 0, 1>>
ZeroVel == <<0, 0, 0>>

\* ode.Mass after setBox / setCappedCylinder
MassBox(density, lx, ly, lz) ==
    [kind |-> "box", density |-> density, dims |-> <<lx, ly, lz>>]
MassCappedCylinder(density, direction, radius, length) ==
    [kind |-> "ccylinder", density |-> density, dims |-> <<direction, radius, length>>]

\* ode.Body(world) followed by the setters of the creating code
NewBody(name, position, rotation, mass) ==
    [name |-> name, position |-> position, rotation |-> rotation,
     linearVel |-> ZeroVel, angularVel |-> ZeroVel, mass |-> mass,
     initial_position |-> position, initial_rotation |-> rotation]

\* ------------------------------------------------------------------- state
VARIABLES
    world,          \* every body the engine holds, by creation order (index = handle)
    space,          \* every collision geometry, by creation order (index = handle)
    bodies_geoms,   \* self.bodies_geoms: sequence of <<body, geom>> handles
    joints,         \* self.joints: sequence of hinge joints
    passpairs,      \* self.passpairs: sequence of <<name, name>>
    _legs,          \* self._legs
    _body_density,  \* self._body_density
    _leg_density,   \* self._leg_density
    lastOp,         \* the last call made on the robot (or engine event) and its outcome
    ticks,          \* engine events so far
    rebuilds        \* accepted set_num_legs calls so far

vars == <<world, space, bodies_geoms, joints, passpairs, _legs,
          _body_density, _leg_density, lastOp, ticks, rebuilds>>

\* self.main_body / self.main_geom: the first body and geometry created
main_body == 1
main_geom == 1

\* the robot object together with the engine objects it drives
Self == [world |-> world, space |-> space, bodies_geoms |-> bodies_geoms,
         joints |-> joints, passpairs |-> passpairs, _legs |-> _legs,
         _body_density |-> _body_density, _leg_density |-> _leg_density]

Commit(s) ==
    /\ world' = s.world
    /\ space' = s.space
    /\ bodies_geoms' = s.bodies_geoms
    /\ joints' = s.joints
    /\ passpairs' = s.passpairs
    /\ _legs' = s._legs
    /\ _body_density' = s._body_density
    /\ _leg_density' = s._leg_density

\* ----------------------------------------------------------- leg geometry
leg_z_spacing == (_body_size[3] \div 2) \div 2

\* leg_x_offset with the odd branch bucketed by n/4 instead of (n-2)/4
leg_x_offset_same_bucket(legs, n) ==
    LET legs_per_side == legs \div 2
    IN  IF legs_per_side % 2 # 0
        THEN LET leg_x_spacing == _body_size[1] \div legs_per_side
             IN  IF n < 2 THEN 0
                 ELSE IF n % 4 > 1
                      THEN ((n \div 4) + 1) * leg_x_spacing
                      ELSE ((n \div 4) + 1) * (-leg_x_spacing)
        ELSE LET leg_x_spacing == (_body_size[1] \div 2) \div legs_per_side
             IN  IF n % 4 > 1
                 THEN ((n \div 4) + 1) * leg_x_spacing
                 ELSE ((n \div 4) + 1) * (-leg_x_spacing)

\* x offset of leg n of a robot with `legs` legs (lines 123-140)
leg_x_offset(legs, n) ==
    LET legs_per_side == legs \div 2
    IN  IF legs_per_side % 2 # 0
        THEN LET leg_x_spacing == _body_size[1] \div legs_per_side
             IN  IF n < 2 THEN 0
                 ELSE IF n % 4 > 1
                      THEN (((n - 2) \div 4) + 1) * leg_x_spacing
                      ELSE (((n - 2) \div 4) + 1) * (-leg_x_spacing)
        ELSE LET leg_x_spacing == (_body_size[1] \div 2) \div legs_per_side
             IN  IF n % 4 > 1
                 THEN ((n \div 4) + 1) * leg_x_spacing
                 ELSE ((n \div 4) + 1) * (-leg_x_spacing)

\* leg_z_offset alternating in step with the x side instead of leg by leg
leg_z_offset_by_side(n) == IF n % 4 > 1 THEN leg_z_spacing ELSE -leg_z_spacing

\* z offset of leg n (lines 141-145)
leg_z_offset(n) == IF n % 2 = 0 THEN leg_z_spacing ELSE -leg_z_spacing

\* position of leg n below a body at body_position (lines 148-151)
leg_position_of(body_position, legs, n) ==
    <<body_position[1] + leg_x_offset(legs, n),
      body_position[2] - _leg_y_offset,
      body_position[3] + leg_z_offset(n)>>

\* ------------------------------------------------------------ construction
\* Robot._create_leg_joint
_create_leg_joint(self, body, leg, n) ==
    LET body_position == self.world[body].position
        leg_position == self.world[leg].position
        joint == [name |-> JointName(n), body1 |-> body, body2 |-> leg,
                  anchor |-> <<leg_position[1],
                               body_position[2] - (_body_size[2] \div 2),
                               leg_position[3]>>,
                  axis |-> <<1, 0, 0>>,
                  LoStop |-> -Real(12, 10), HiStop |-> Real(12, 10),
                  FMax |-> Real(10, 1), Vel |-> 0]
    IN  [self EXCEPT !.joints = Append(@, joint)]

\* _create_leg without the passpairs entry
_create_leg_colliding(self, body, n) ==
    LET leg == Len(self.world) + 1
        leg_geom == Len(self.space) + 1
        leg_position == leg_position_of(self.world[body].position, self._legs, n)
        leg_mass == MassCappedCylinder(self._leg_density, 3, _leg_radius, _leg_length)
        s1 == [self EXCEPT
                 !.world = Append(@, NewBody(LegName(n), leg_position, _leg_rotation, leg_mass)),
                 !.space = Append(@, [name |-> LegName(n), kind |-> "ccylinder", body |-> leg]),
                 !.bodies_geoms = Append(@, <<leg, leg_geom>>)]
    IN  _create_leg_joint(s1, body, leg, n)

\* Robot._create_leg
_create_leg(self, body, n) ==
    LET leg == Len(self.world) + 1
        leg_geom == Len(self.space) + 1
        leg_position == leg_position_of(self.world[body].position, self._legs, n)
        leg_mass == MassCappedCylinder(self._leg_density, 3, _leg_radius, _leg_length)
        s1 == [self EXCEPT
                 !.world = Append(@, NewBody(LegName(n), leg_position, _leg_rotation, leg_mass)),
                 !.space = Append(@, [name |-> LegName(n), kind |-> "ccylinder", body |-> leg]),
                 !.bodies_geoms = Append(@, <<leg, leg_geom>>),
                 !.passpairs = Append(@, <<self.world[body].name, LegName(n)>>)]
    IN  _create_leg_joint(s1, body, leg, n)

\* Robot._create_legs: for i in range(self._legs), from i on
RECURSIVE _create_legs_from(_, _, _)
_create_legs_from(self, body, i) ==
    IF i >= self._legs THEN self
    ELSE _create_legs_from(_create_leg(self, body, i), body, i + 1)

_create_legs(self, body) == _create_legs_from(self, body, 0)

\* Robot.__init__
__init__(body_position) ==
    LET body_mass == MassBox(DefaultBodyDensity, _body_size[1], _body_size[2], _body_size[3])
        s0 == [world |-> <<NewBody(BodyName, body_position, IdentityRotation, body_mass)>>,
               space |-> <<[name |-> BodyName, kind |-> "box", body |-> main_body]>>,
               bodies_geoms |-> <<<<main_body, main_geom>>>>,
               joints |-> <<>>,
               passpairs |-> <<>>,
               _legs |-> DefaultLegs,
               _body_density |-> DefaultBodyDensity,
               _leg_density |-> DefaultLegDensity]
    IN  _create_legs(s0, main_body)

\* -------------------------------------------------------------- operations
\* set_num_legs that keeps the old legs in self.bodies_geoms
set_num_legs_keeping_parts(self, n) ==
    IF n % 2 # 0
    THEN [self |-> self, raised |-> TRUE]
    ELSE [self |-> _create_legs([self EXCEPT !._legs = n], main_body), raised |-> FALSE]

\* set_num_legs that stores the count before it checks it
set_num_legs_late_check(self, n) ==
    IF n % 2 # 0
    THEN [self |-> [self EXCEPT !._legs = n], raised |-> TRUE]
    ELSE LET s1 == [self EXCEPT !._legs = n,
                                !.bodies_geoms = <<<<main_body, main_geom>>>>]
         IN  [self |-> _create_legs(s1, main_body), raised |-> FALSE]

\* Robot.set_num_legs: the new object state, and whether OddLegNumber was raised
set_num_legs(self, n) ==
    IF n % 2 # 0
    THEN [self |-> self, raised |-> TRUE]
    ELSE LET s1 == [self EXCEPT !._legs = n,
                                !.bodies_geoms = <<<<main_body, main_geom>>>>]
         IN  [self |-> _create_legs(s1, main_body), raised |-> FALSE]

\* Robot.set_body_density; getMass() is taken to hand out the body's own mass
set_body_density(self, density) ==
    [self EXCEPT !._body_density = density,
                 !.world[main_body].mass =
                     MassBox(density, _body_size[1], _body_size[2], _body_size[3])]

\* the loop of set_leg_density without the test of the name prefix
RECURSIVE set_leg_mass_unfiltered(_, _)
set_leg_mass_unfiltered(self, i) ==
    IF i > Len(self.bodies_geoms) THEN self
    ELSE set_leg_mass_unfiltered(
             [self EXCEPT !.world[self.bodies_geoms[i][1]].mass =
                 MassCappedCylinder(self._leg_density, 3, _leg_radius, _leg_length)],
             i + 1)

\* Robot.set_leg_density: the loop over self.bodies_geoms, from entry i on
RECURSIVE set_leg_mass_from(_, _)
set_leg_mass_from(self, i) ==
    IF i > Len(self.bodies_geoms) THEN self
    ELSE LET body == self.bodies_geoms[i][1]
         IN  IF IsLegName(self.world[body].name)
             THEN set_leg_mass_from(
                      [self EXCEPT !.world[body].mass =
                          MassCappedCylinder(self._leg_density, 3, _leg_radius, _leg_length)],
                      i + 1)
             ELSE set_leg_mass_from(self, i + 1)

set_leg_density(self, density) ==
    set_leg_mass_from([self EXCEPT !._leg_density = density], 1)

\* Robot.reset: the loop over self.bodies_geoms, from entry i on
RECURSIVE reset_bodies_from(_, _)
reset_bodies_from(self, i) ==
    IF i > Len(self.bodies_geoms) THEN self
    ELSE LET body == self.bodies_geoms[i][1]
         IN  reset_bodies_from(
                 [self EXCEPT !.world[body].position = self.world[body].initial_position,
                              !.world[body].rotation = self.world[body].initial_rotation,
                              !.world[body].linearVel = ZeroVel,
                              !.world[body].angularVel = ZeroVel],
                 i + 1)

\* Robot.reset: the loop over self.joints
reset_joints(self) ==
    [self EXCEPT !.joints = [j \in 1..Len(self.joints) |-> [self.joints[j] EXCEPT !.Vel = 0]]]

\* reset without the loop over self.joints
reset_bodies_only(self) == reset_bodies_from(self, 1)

reset(self) == reset_joints(reset_bodies_from(self, 1))

\* accessors
get_position == world[main_body].position
get_joints == joints
get_num_legs == _legs
get_body_density == _body_density
get_leg_density == _leg_density

\* ------------------------------------------------------------------ inputs
BodyPositions == {DefaultBodyPosition}
LegCounts == (-MaxNeg)..MaxLegs
Densities == {Real(1, 2)}
\* what one engine event does to a body: a displacement, also its new velocity
Displacements == {<<Real(1, 2), -Real(10, 1), Real(3, 1)>>}
\* the bodies one engine event moves: the torso alone, or every body of the world
MovedSets(w) == {{main_body}, 1..Len(w)}
\* the joints one motor command drives: all of them, discarded legs' included
DrivenSets(js) == {1..Len(js)}
\* a quarter turn about the y axis, applied to whatever the rotation was
Tumbled(rotation) ==
    <<rotation[7], rotation[8], rotation[9],
      rotation[4], rotation[5], rotation[6],
      -rotation[1], -rotation[2], -rotation[3]>>
MotorVels == {Real(1, 1)}

NoArg == 0
Op(op, arg, raised) == [op |-> op, arg |-> arg, raised |-> raised]

\* ----------------------------------------------------------------- actions
Init ==
    \E p \in BodyPositions :
        LET s == __init__(p)
        IN  /\ world = s.world
            /\ space = s.space
            /\ bodies_geoms = s.bodies_geoms
            /\ joints = s.joints
            /\ passpairs = s.passpairs
            /\ _legs = s._legs
            /\ _body_density = s._body_density
            /\ _leg_density = s._leg_density
            /\ lastOp = Op("__init__", NoArg, FALSE)
            /\ ticks = 0
            /\ rebuilds = 0

SetNumLegs(n) ==
    /\ rebuilds < MaxRebuilds
    /\ LET r == set_num_legs(Self, n)
       IN  /\ Commit(r.self)
           /\ lastOp' = Op("set_num_legs", n, r.raised)
           /\ rebuilds' = IF r.raised THEN rebuilds ELSE rebuilds + 1
    /\ UNCHANGED ticks

SetBodyDensity(d) ==
    /\ Commit(set_body_density(Self, d))
    /\ lastOp' = Op("set_body_density", d, FALSE)
    /\ UNCHANGED <<ticks, rebuilds>>

SetLegDensity(d) ==
    /\ Commit(set_leg_density(Self, d))
    /\ lastOp' = Op("set_leg_density", d, FALSE)
    /\ UNCHANGED <<ticks, rebuilds>>

Reset ==
    /\ Commit(reset(Self))
    /\ lastOp' = Op("reset", NoArg, FALSE)
    /\ UNCHANGED <<ticks, rebuilds>>

\* the engine integrates the bodies of B: each is displaced, turned and left moving
EngineStep(B, d) ==
    /\ ticks < MaxTicks
    /\ world' = [b \in 1..Len(world) |->
                    IF b \in B
                    THEN [world[b] EXCEPT
                            !.position = <<@[1] + d[1], @[2] + d[2], @[3] + d[3]>>,
                            !.rotation = Tumbled(@),
                            !.linearVel = d,
                            !.angularVel = d]
                    ELSE world[b]]
    /\ lastOp' = Op("engine_step", Cardinality(B), FALSE)
    /\ ticks' = ticks + 1
    /\ UNCHANGED <<space, bodies_geoms, joints, passpairs, _legs,
                   _body_density, _leg_density, rebuilds>>

\* a controller, through get_joints(), sets the motor velocity of the joints of J
MotorCommand(J, v) ==
    /\ ticks < MaxTicks
    /\ joints' = [j \in 1..Len(joints) |->
                     IF j \in J THEN [joints[j] EXCEPT !.Vel = v] ELSE joints[j]]
    /\ lastOp' = Op("motor_command", Cardinality(J), FALSE)
    /\ ticks' = ticks + 1
    /\ UNCHANGED <<world, space, bodies_geoms, passpairs, _legs,
                   _body_density, _leg_density, rebuilds>>

Next ==
    \/ \E n \in LegCounts : SetNumLegs(n)
    \/ \E d \in Densities : SetBodyDensity(d)
    \/ \E d \in Densities : SetLegDensity(d)
    \/ Reset
    \/ \E B \in MovedSets(world), d \in Displacements : EngineStep(B, d)
    \/ \E J \in DrivenSets(joints), v \in MotorVels : MotorCommand(J, v)

Spec == Init /\ [][Next]_vars


\* ================================================================== claims
\* C1: in every reachable state the number of joints returned by get_joints
\* equals get_num_legs(), and each joint connects the torso to exactly one
\* leg of the current part list.  Stated for the states whose leg count is
\* at least 2, the robots that have legs.
C1_JointsMatchLegs ==
    get_num_legs >= 2
    => /\ Len(get_joints) = get_num_legs
       /\ \A j \in 1..Len(get_joints) :
              /\ get_joints[j].body1 = main_body
              /\ \E i \in 2..Len(bodies_geoms) : bodies_geoms[i][1] = get_joints[j].body2

\* C2: for every even N >= 2, an accepted set_num_legs(N) leaves
\* get_num_legs() = N and a body/geometry list of exactly N+1 entries: the
\* torso first, then N legs whose bodies and geometries did not exist before
\* the call.
C2_SetNumLegsRebuilds ==
    [][ (lastOp'.op = "set_num_legs" /\ lastOp'.arg >= 2
            /\ (\E k \in 1..MaxLegs : lastOp'.arg = 2 * k))
        => /\ ~lastOp'.raised
           /\ _legs' = lastOp'.arg
           /\ Len(bodies_geoms') = lastOp'.arg + 1
           /\ bodies_geoms'[1] = <<main_body, main_geom>>
           /\ world'[main_body].name = BodyName
           /\ \A i \in 2..Len(bodies_geoms') :
                  /\ bodies_geoms'[i][1] \in (Len(world) + 1)..Len(world')
                  /\ bodies_geoms'[i][2] \in (Len(space) + 1)..Len(space')
                  /\ space'[bodies_geoms'[i][2]].body = bodies_geoms'[i][1]
                  /\ world'[bodies_geoms'[i][1]].name = <<"robot_leg", i - 1>>
                  /\ \A k \in 2..Len(bodies_geoms') :
                         k # i => bodies_geoms'[k][1] # bodies_geoms'[i][1]
      ]_vars

C2_Witness ==
    /\ lastOp.op = "set_num_legs" /\ ~lastOp.raised /\ lastOp.arg = 6
    /\ Len(bodies_geoms) = 7

\* C3: for every odd N, set_num_legs(N) raises OddLegNumber and leaves leg
\* count, body/geometry list, joint list, collision-filter list, densities
\* and the engine objects as they were before the call.
C3_OddLegsRejected ==
    [][ (lastOp'.op = "set_num_legs"
            /\ (\E k \in (-MaxLegs - MaxNeg)..(MaxLegs + MaxNeg) : lastOp'.arg = 2 * k + 1))
        => /\ lastOp'.raised
           /\ UNCHANGED <<_legs, bodies_geoms, joints, passpairs,
                          _body_density, _leg_density, world, space>>
      ]_vars

C3_Witness ==
    /\ lastOp.op = "set_num_legs" /\ lastOp.raised /\ lastOp.arg = -1

\* C4: after reset() every part of the body/geometry list is at the position
\* and rotation snapshotted at its creation with zero linear and angular
\* velocity, and every joint has target velocity 0; reset changes no joint
\* anchor, axis, angle limit or max force, creates or removes no part or
\* joint, and alters no stored snapshot.
C4_ResetRestores ==
    [][ lastOp'.op = "reset"
        => /\ \A i \in 1..Len(bodies_geoms') :
                  LET b == bodies_geoms'[i][1]
                  IN  /\ world'[b].position = world[b].initial_position
                      /\ world'[b].rotation = world[b].initial_rotation
                      /\ world'[b].linearVel = <<0, 0, 0>>
                      /\ world'[b].angularVel = <<0, 0, 0>>
           /\ Len(joints') = Len(joints)
           /\ \A j \in 1..Len(joints') :
                  /\ joints'[j].Vel = 0
                  /\ joints'[j] = [joints[j] EXCEPT !.Vel = 0]
           /\ Len(world') = Len(world)
           /\ \A b \in 1..Len(world) :
                  /\ world'[b].initial_position = world[b].initial_position
                  /\ world'[b].initial_rotation = world[b].initial_rotation
                  /\ world'[b].name = world[b].name
                  /\ world'[b].mass = world[b].mass
           /\ UNCHANGED <<bodies_geoms, space, passpairs, _legs,
                          _body_density, _leg_density>>
      ]_vars

\* a reset that had something to undo: the engine had moved every body, the
\* torso is back at its snapshot and a discarded leg is still where it was moved
C4_Witness ==
    /\ lastOp.op = "reset"
    /\ ticks >= 1
    /\ rebuilds >= 1
    /\ Len(bodies_geoms) > 1
    /\ world[2].position # world[2].initial_position
    /\ world[main_body].position = world[main_body].initial_position


\* C5: after the legs of an even count N >= 2 are created, every leg n in
\* 0..N-1 has a leg n' whose x offset from the torso is the negation of its
\* own, and the legs with x offset 0 are exactly the legs n < 2 of a robot
\* whose N/2 is odd.
C5_MirrorPairs ==
    (lastOp.op \in {"__init__", "set_num_legs"} /\ ~lastOp.raised /\ _legs >= 2)
    => LET x(n) == world[bodies_geoms[n + 2][1]].initial_position[1]
                       - world[main_body].position[1]
       IN  /\ Len(bodies_geoms) = _legs + 1
           /\ \A n \in 0..(_legs - 1) :
                  /\ \E m \in 0..(_legs - 1) : x(m) = -x(n)
                  /\ (x(n) = 0) <=> (n < 2 /\ (_legs \div 2) % 2 = 1)

\* legs on both sides in the second group of four, odd legs per side
C5_Witness ==
    /\ lastOp.op = "set_num_legs" /\ ~lastOp.raised /\ _legs = 10
    /\ \E n \in 6..9 :
           world[bodies_geoms[n + 2][1]].initial_position[1]
               > world[main_body].position[1] + Scale

\* C6 as stated: the collision-filter list holds (torso name, leg name) for
\* every leg of the current body/geometry list, no step removes or reorders
\* an entry, and an accepted set_num_legs(n) appends exactly n pairs.
C6_AppendsExactlyN ==
    [][ /\ Len(passpairs') >= Len(passpairs)
        /\ SubSeq(passpairs', 1, Len(passpairs)) = passpairs
        /\ (lastOp'.op = "set_num_legs" /\ ~lastOp'.raised)
               => Len(passpairs') = Len(passpairs) + lastOp'.arg
      ]_vars

\* C6 amended: the collision-filter list holds (torso name, leg name) for
\* every leg of the current body/geometry list, no step removes or reorders
\* an entry, and an accepted set_num_legs(n) appends exactly n pairs when
\* n >= 0 and none when n is negative.
C6_PassPairsGrow ==
    /\ [](\A i \in 2..Len(bodies_geoms) :
              \E k \in 1..Len(passpairs) :
                  passpairs[k] = <<world[main_body].name, world[bodies_geoms[i][1]].name>>)
    /\ [][ /\ Len(passpairs') >= Len(passpairs)
           /\ SubSeq(passpairs', 1, Len(passpairs)) = passpairs
           /\ (lastOp'.op = "set_num_legs" /\ ~lastOp'.raised)
                  => Len(passpairs') =
                         Len(passpairs) + (IF lastOp'.arg >= 0 THEN lastOp'.arg ELSE 0)
         ]_vars

\* pairs of discarded legs are still listed after a rebuild
C6_Witness ==
    /\ lastOp.op = "set_num_legs" /\ ~lastOp.raised /\ lastOp.arg = 2
    /\ Len(passpairs) = 6
    /\ Len(bodies_geoms) = 3

C8_DefaultConstruction ==
    lastOp.op = "__init__"
    => /\ Len(bodies_geoms) = 5
       /\ Len(joints) = 4
       /\ Len(passpairs) = 4
       /\ _legs = 4
       /\ world[bodies_geoms[2][1]].position =
              <<world[main_body].position[1] - Real(1, 1),
                world[main_body].position[2] - Real(29, 10),
                world[main_body].position[3] + Real(1, 1)>>

C8_Witness ==
    /\ lastOp.op = "__init__"
    /\ world[main_body].position = <<0, Real(150, 1), 0>>
    /\ world[bodies_geoms[2][1]].position = <<-Real(1, 1), Real(1471, 10), Real(1, 1)>>

\* C9: after the legs of an even count N >= 2 are created, any two distinct
\* legs have different (x, z) positions.
C9_LegsDoNotOverlap ==
    (lastOp.op \in {"__init__", "set_num_legs"} /\ ~lastOp.raised /\ _legs >= 2)
    => \A i, k \in 2..Len(bodies_geoms) :
           i # k => <<world[bodies_geoms[i][1]].position[1],
                      world[bodies_geoms[i][1]].position[3]>>
                    # <<world[bodies_geoms[k][1]].position[1],
                        world[bodies_geoms[k][1]].position[3]>>

C9_Witness ==
    /\ lastOp.op = "set_num_legs" /\ ~lastOp.raised /\ _legs = 8
    /\ Len(bodies_geoms) = 9
    /\ world[bodies_geoms[2][1]].position[1] = world[bodies_geoms[3][1]].position[1]
    /\ world[bodies_geoms[2][1]].position[3] = world[bodies_geoms[6][1]].position[3]

\* C10: after reset() every leg of the current part list is at the torso's
\* position plus that leg's (x offset, -leg_y_offset, z offset), whatever
\* the engine and set_num_legs did before.
C10_AssembledAfterReset ==
    (lastOp.op = "reset" /\ _legs >= 2)
    => \A i \in 2..Len(bodies_geoms) :
           world[bodies_geoms[i][1]].position =
               <<world[main_body].position[1] + leg_x_offset(_legs, i - 2),
                 world[main_body].position[2] - _leg_y_offset,
                 world[main_body].position[3] + leg_z_offset(i - 2)>>


=============================================================================
